---- MODULE Spec2Model ----
(***************************************************************************)
(* Model of rsoccer_gym/ssl/my_envs/ssl_shoot.py (class SSLShootEnv).      *)
(*                                                                         *)
(* Units.  Lengths are integers in millimetres (the code uses metres),     *)
(* angles are integers in millidegrees inside the facing test and degrees  *)
(* in the frame (the code keeps theta in degrees), rewards are integers in *)
(* millionths.  Comparisons of distances (<= threshold, < min_dist,        *)
(* blue <= yellow) are made on squared distances and are exact; the        *)
(* gradient rewards use the integer square root, atan2 is a fixed-point    *)
(* CORDIC.                                                                 *)
(*                                                                         *)
(* Optional values (None in the code) are sequences: <<>> is None and      *)
(* <<v>> is the value v.                                                   *)
(***************************************************************************)
EXTENDS Integers, Sequences, FiniteSets, TLC

VARIABLES
    frame,                  \* self.frame: <<>> or <<Frame>>
    last_frame,             \* self.last_frame: <<>> or <<Frame>>
    commands,               \* self.commands: <<>> (None) or the list of 6 commands
    done_limit,             \* self.done_limit: <<>> (None) or <<x>>
    active_robot_idx,       \* self.active_robot_idx
    possession_robot_idx,   \* self.possession_robot_idx
    last_possession,        \* self.last_possession
    dribbler_time,          \* self.dribbler_time
    steps,                  \* self.steps of the base environment
    reward_shaping_total,   \* self.reward_shaping_total
    reward,                 \* the reward the last tick returned
    done,                   \* the done flag the last tick returned
    op,                     \* the operation that produced this state
    acc,                    \* history: sum of the per-tick contributions since reset
    tick,                   \* history: the contributions of the last tick
    controlled              \* history: the blue index the policy's action went to, or -1

vars == << frame, last_frame, commands, done_limit, active_robot_idx,
           possession_robot_idx, last_possession, dribbler_time, steps,
           reward_shaping_total, reward, done, op, acc, tick, controlled >>

----------------------------------------------------------------------------
(* Bounds of the model. *)

\* step() is enabled while self.steps < MaxSteps
MaxSteps == 2

----------------------------------------------------------------------------
(* Program constants. *)

n_robots_blue == 3
n_robots_yellow == 3
threshold == 150
min_dist == 200
r == 90
done_limit_offset == 500
wheel_max_rad_s == 160
max_steps == 1000
energy_scale == (wheel_max_rad_s * 4) * max_steps

\* self.field of field_type 2, in millimetres
field_length == 6000
field_width == 4000
field_penalty_length == 800
field_penalty_width == 2000
field_goal_width == 1000
\* margin of the random draws x() and y()
draw_margin == 200

half_len == field_length \div 2
half_wid == field_width \div 2
pen_len == field_penalty_length
half_pen_wid == field_penalty_width \div 2
half_goal_wid == field_goal_width \div 2

\* one unit of reward, -10 and +-50 in millionths
RewardUnit == 1000 * 1000

----------------------------------------------------------------------------
(* Arithmetic helpers. *)

abs(v) == IF v < 0 THEN -v ELSE v

Min2(a, b) == IF a <= b THEN a ELSE b

\* np.clip
clip(v, lo, hi) == IF v < lo THEN lo ELSE IF v > hi THEN hi ELSE v

RECURSIVE SqrtSearch(_, _, _)
SqrtSearch(n, lo, hi) ==
    IF lo >= hi THEN lo
    ELSE LET mid == (lo + hi + 1) \div 2
         IN  IF mid * mid <= n THEN SqrtSearch(n, mid, hi)
             ELSE SqrtSearch(n, lo, mid - 1)

\* floor of the square root
ISqrt(n) == SqrtSearch(n, 0, 16384)

SqDist(x1, y1, x2, y2) == (x1 - x2) * (x1 - x2) + (y1 - y2) * (y1 - y2)

\* np.linalg.norm of the difference of two points, in millimetres
norm(x1, y1, x2, y2) == ISqrt(SqDist(x1, y1, x2, y2))

\* atan(2^-i) in millidegrees, i = 0..15
CordicTab == << 45000, 26565, 14036, 7125, 3576, 1790, 895, 448,
                224, 112, 56, 28, 14, 7, 3, 2 >>

RECURSIVE Pow2(_)
Pow2(i) == IF i = 0 THEN 1 ELSE 2 * Pow2(i - 1)

RECURSIVE Cordic(_, _, _, _)
Cordic(x, y, z, i) ==
    IF i = Len(CordicTab) \/ y = 0 THEN z
    ELSE IF y > 0
         THEN Cordic(x + (y \div Pow2(i)), y - (x \div Pow2(i)), z + CordicTab[i + 1], i + 1)
         ELSE Cordic(x - (y \div Pow2(i)), y + (x \div Pow2(i)), z - CordicTab[i + 1], i + 1)

\* math.atan2(y, x) in millidegrees, in (-180000, 180000]
atan2(y, x) ==
    IF x = 0 THEN (IF y > 0 THEN 90000 ELSE IF y < 0 THEN -90000 ELSE 0)
    ELSE IF x > 0 THEN Cordic(x * 65536, y * 65536, 0, 0)
    ELSE IF y >= 0 THEN 180000 - Cordic(-x * 65536, y * 65536, 0, 0)
    ELSE -180000 - Cordic(-x * 65536, y * 65536, 0, 0)

\* cos and sin of a multiple of 45 degrees, in thousandths
CosMilli(a) ==
    LET m == a % 360
    IN  CASE m = 0 -> 1000 [] m = 45 -> 707 [] m = 90 -> 0 [] m = 135 -> -707
          [] m = 180 -> -1000 [] m = 225 -> -707 [] m = 270 -> 0 [] m = 315 -> 707

SinMilli(a) == CosMilli(a + 270)

\* a length times a value in thousandths, rounded to the millimetre
Scaled(len, milli) == (len * milli + 500) \div 1000

----------------------------------------------------------------------------
(* Entities: rsoccer_gym.Entities Frame, Robot, Ball. *)

None == <<>>
Some(v) == <<v>>
Val(o) == o[1]

NoWheels == << 0, 0, 0, 0 >>

Ball(x, y) == [x |-> x, y |-> y]

Robot(x, y, theta, v_wheel) == [x |-> x, y |-> y, theta |-> theta, v_wheel |-> v_wheel]

Frame(ball, blue, yellow) == [ball |-> ball, robots_blue |-> blue, robots_yellow |-> yellow]

BlueIds == 0 .. (n_robots_blue - 1)
YellowIds == 0 .. (n_robots_yellow - 1)

ZeroTotal ==
    [goal |-> 0, done_left_out |-> 0, done_ball_out |-> 0, done_robot_out |-> 0,
     done_robot_in_gk_area |-> 0, rw_ball_grad |-> 0, rw_robot_grad |-> 0,
     rw_robot_orientation |-> 0, rw_energy |-> 0]

TotalKeys == DOMAIN ZeroTotal

----------------------------------------------------------------------------
(* Possession heuristic: _frame_to_observations and __is_toward_ball. *)

TeamRobots(f, team) == IF team = "blue" THEN f.robots_blue ELSE f.robots_yellow

\* squared distance of robot idx of the team to the ball
BallSqDist(f, team, idx) ==
    SqDist(TeamRobots(f, team)[idx].x, TeamRobots(f, team)[idx].y, f.ball.x, f.ball.y)

\* index and (squared) distance of the team's robot nearest the ball; of
\* several robots at the same distance the lowest index
get_nearest_robot_idx(f, team) ==
    LET ids == DOMAIN TeamRobots(f, team)
        idx == CHOOSE i \in ids :
                   \A j \in ids : \/ BallSqDist(f, team, i) < BallSqDist(f, team, j)
                                  \/ (BallSqDist(f, team, i) = BallSqDist(f, team, j) /\ i <= j)
    IN  [idx |-> idx, sqdist |-> BallSqDist(f, team, idx)]

RECURSIVE FoldUp(_)
FoldUp(angle) == IF angle < -180000 THEN FoldUp(angle + 360000) ELSE angle

RECURSIVE FoldDown(_)
FoldDown(angle) == IF angle > 180000 THEN FoldDown(angle - 360000) ELSE angle

\* the facing score times 10 and pi, compared with 0.9
ScoreOk(angle) == (180000 - abs(angle)) * 10 >= 9 * 180000

is_toward_ball(f, team, idx) ==
    LET rbt == TeamRobots(f, team)[idx]
        theta == rbt.theta * 1000
        line_angle == atan2(f.ball.y - rbt.y, f.ball.x - rbt.x)
        angle == FoldDown(FoldUp(line_angle - theta))
    IN  ScoreOk(angle)

\* the bookkeeping of _frame_to_observations: the new active_robot_idx,
\* possession_robot_idx and last_possession (the observation vector is a
\* return value and no state)
frame_to_observations(f, cmds, possession) ==
    LET nb == get_nearest_robot_idx(f, "blue")
        ny == get_nearest_robot_idx(f, "yellow")
        nearest_blue_robot == nb.idx
        nearest_yellow_robot == ny.idx
        new_possession ==
            IF cmds = None THEN -1
            ELSE IF nb.sqdist <= ny.sqdist
                 THEN IF /\ nb.sqdist <= threshold * threshold
                         /\ cmds[nearest_blue_robot + 1].dribbler
                         /\ is_toward_ball(f, "blue", nearest_blue_robot)
                      THEN nearest_blue_robot ELSE -1
                 ELSE IF /\ ny.sqdist <= threshold * threshold
                         /\ cmds[n_robots_blue + nearest_yellow_robot + 1].dribbler
                         /\ is_toward_ball(f, "yellow", nearest_blue_robot)
                      THEN 3 + nearest_yellow_robot ELSE -1
    IN  [active_robot_idx |-> nearest_blue_robot,
         possession_robot_idx |-> new_possession,
         last_possession |-> possession]

----------------------------------------------------------------------------
(* Commands: _get_commands.  The velocities of a command (convert_actions)  *)
(* are not kept: the simulator's next frame is an input of the model.        *)

kick_speed_x == 5000

Cmd(yellow, id, kick_v_x) ==
    [yellow |-> yellow, id |-> id, kick_v_x |-> kick_v_x, dribbler |-> TRUE]

\* actions: the policy's action, a 4-tuple in thousandths; u[i]: the draw
\* random.uniform(-1, 1) of blue robot i; random_actions[j]: the sampled
\* action of yellow robot j
get_commands(active, actions, u, random_actions) ==
    [p \in 1 .. (n_robots_blue + n_robots_yellow) |->
        IF p <= n_robots_blue
        THEN LET i == p - 1
             IN  IF i # active
                 THEN Cmd(FALSE, i, IF u[i] < actions[4] THEN kick_speed_x ELSE 0)
                 ELSE Cmd(FALSE, 0, IF u[i] < actions[4] THEN kick_speed_x ELSE 0)
        ELSE LET i == p - n_robots_blue - 1
             IN  Cmd(TRUE, i, IF random_actions[i][4] > 0 THEN kick_speed_x ELSE 0)]

----------------------------------------------------------------------------
(* Reward and termination: _calculate_reward_and_done and its helpers. *)

energy_pen(f) ==
    LET robot == f.robots_blue[0]
    IN  abs(robot.v_wheel[1]) + abs(robot.v_wheel[2])
          + abs(robot.v_wheel[3]) + abs(robot.v_wheel[4])

\* a difference of distances in millimetres times 1/0.1, clipped to [-1, 1]
Grad(last_dist, dist) == clip((last_dist - dist) * 10000, -RewardUnit, RewardUnit)

ball_grad_rw(f, lf) ==
    LET last_ball_dist == norm(half_len, 0, lf.ball.x, lf.ball.y)
        ball_dist == norm(half_len, 0, f.ball.x, f.ball.y)
    IN  Grad(last_ball_dist, ball_dist)

GoalDist(x, y) ==
    Min2(norm(half_len, half_goal_wid, x, y),
         Min2(norm(half_len, -half_goal_wid, x, y), norm(half_len, 0, x, y)))

robot_grad_rw(f, lf, active) ==
    LET last_robot == lf.robots_blue[active]
        robot == f.robots_blue[active]
    IN  Grad(GoalDist(last_robot.x, last_robot.y), GoalDist(robot.x, robot.y))

\* the shaped branch (lines 264-280): needs a previous frame
ShapedRw(f, lf, active) ==
    LET ball_grad == ball_grad_rw(f, lf)
        robot_grad == robot_grad_rw(f, lf, active) \div 5
        energy_rw == -((energy_pen(f) * RewardUnit) \div energy_scale)
    IN  [rw_ball_grad |-> ball_grad, rw_robot_grad |-> robot_grad, rw_energy |-> energy_rw]

\* mutant: only the robot is compared with done_limit
LeftOutRobotOnly(f, dl) == f.robots_blue[0].x < dl

\* the first if (lines 240-243)
LeftOut(f, dl) == f.robots_blue[0].x < dl \/ f.ball.x < dl

Bump(total, key, n) == [total EXCEPT ![key] = @ + n]

\* mutant: the length bound is not tested
robot_out_width_only(robot) == abs(robot.y) > half_wid

\* the test of line 244
robot_out(robot) == abs(robot.y) > half_wid \/ abs(robot.x) > half_len

\* lines 251-256: the ball behind the defended boundary
DefendedRule(ball, s) ==
    IF abs(ball.y) < half_goal_wid
    THEN [s EXCEPT !.done = TRUE, !.reward = -50 * RewardUnit,
                   !.total = Bump(@, "goal", -1)]
    ELSE [s EXCEPT !.done = TRUE, !.total = Bump(@, "done_ball_out", 1)]

\* mutant: a ball on the goal post counts as a goal
AttackRuleWide(ball, s) ==
    IF abs(ball.y) <= half_goal_wid
    THEN [s EXCEPT !.done = TRUE, !.reward = 50 * RewardUnit,
                   !.total = Bump(@, "goal", 1)]
    ELSE [s EXCEPT !.done = TRUE, !.total = Bump(@, "done_ball_out", 1)]

\* lines 258-263: the ball beyond the attacking boundary
AttackRule(ball, s) ==
    IF abs(ball.y) < half_goal_wid
    THEN [s EXCEPT !.done = TRUE, !.reward = 50 * RewardUnit,
                   !.total = Bump(@, "goal", 1)]
    ELSE [s EXCEPT !.done = TRUE, !.total = Bump(@, "done_ball_out", 1)]

\* mutant: without a previous frame the current frame stands in for it
ShapedRuleNoGuard(f, lf, active, s) ==
    LET rw == ShapedRw(f, IF lf # None THEN Val(lf) ELSE f, active)
    IN  [s EXCEPT !.reward = rw.rw_ball_grad + rw.rw_robot_grad + rw.rw_energy,
                  !.total = Bump(Bump(Bump(@, "rw_ball_grad", rw.rw_ball_grad),
                                      "rw_robot_grad", rw.rw_robot_grad),
                                 "rw_energy", rw.rw_energy)]

\* lines 264-280: the shaped reward, only with a previous frame
ShapedRule(f, lf, active, s) ==
    IF lf # None
    THEN LET rw == ShapedRw(f, Val(lf), active)
         IN  [s EXCEPT !.reward = rw.rw_ball_grad + rw.rw_robot_grad + rw.rw_energy,
                       !.total = Bump(Bump(Bump(@, "rw_ball_grad", rw.rw_ball_grad),
                                           "rw_robot_grad", rw.rw_robot_grad),
                                      "rw_energy", rw.rw_energy)]
    ELSE s

\* the second if and its elif chain (lines 244-280), entered with the
\* reward, done flag and totals the first if left
RuleChain(f, lf, active, s) ==
    LET ball == f.ball
        robot == f.robots_blue[0]
    IN  IF robot_out(robot)
        THEN [s EXCEPT !.done = TRUE, !.total = Bump(@, "done_robot_out", 1)]
        ELSE IF abs(ball.y) > half_wid
        THEN [s EXCEPT !.done = TRUE, !.total = Bump(@, "done_ball_out", 1)]
        ELSE IF ball.x < -half_len \/ abs(ball.y) > half_wid
        THEN DefendedRule(ball, s)
        ELSE IF ball.x > half_len
        THEN AttackRule(ball, s)
        ELSE ShapedRule(f, lf, active, s)

\* mutant: the mapping is not cleared, the call adds to what it holds
KeptTotal == reward_shaping_total

\* the mapping every call starts from (lines 214-224)
InitialTotal == ZeroTotal

\* f: self.frame, lf: self.last_frame (or None), dl: self.done_limit,
\* active: self.active_robot_idx; the result is the returned reward and
\* done flag and the new self.reward_shaping_total
calculate_reward_and_done(f, lf, dl, active) ==
    LET s0 == [reward |-> 0, done |-> FALSE, total |-> InitialTotal]
        s1 == IF LeftOut(f, dl)
              THEN [reward |-> -10 * RewardUnit, done |-> TRUE,
                    total |-> Bump(s0.total, "done_left_out", 1)]
              ELSE s0
    IN  RuleChain(f, lf, active, s1)

----------------------------------------------------------------------------
(* Initial placement: _get_initial_positions_frame. *)

in_gk_area(obj) == obj.x > half_len - pen_len /\ abs(obj.y) < half_pen_wid

\* KDTree.get_nearest(pos)[1] < min_dist, for the points inserted so far
TooNear(places, pos) ==
    \E q \in places : SqDist(pos.x, pos.y, q.x, q.y) < min_dist * min_dist

\* the draws x(), y() stay inside the field less the margin
InDrawRange(pos) ==
    /\ abs(pos.x) <= half_len - draw_margin
    /\ abs(pos.y) <= half_wid - draw_margin

\* mutant: accepted positions are not inserted into the tree
PlacementOkNoInsert(ball, ps) ==
    /\ InDrawRange(ball)
    /\ ~ in_gk_area(ball)
    /\ \A k \in DOMAIN ps : InDrawRange(ps[k]) /\ ~ TooNear({ball}, ps[k])

\* ball: the draw that left the first while loop; angle: the draw theta() of
\* line 313; ps[k], ts[k], k = 1..5: the position that left the while loop of
\* the k-th robot placed after the controlled one (blue 1, 2, yellow 0, 1, 2)
\* and its theta().  The tree holds the ball (inserted twice) and the
\* positions accepted so far.
PlacementOk(ball, ps) ==
    /\ InDrawRange(ball)
    /\ ~ in_gk_area(ball)
    /\ \A k \in DOMAIN ps :
          /\ InDrawRange(ps[k])
          /\ ~ TooNear({ball} \cup {ps[j] : j \in 1 .. (k - 1)}, ps[k])

get_initial_positions_frame(ball, angle, ps, ts) ==
    LET robot_x == ball.x + Scaled(r, CosMilli(angle))
        robot_y == ball.y + Scaled(r, SinMilli(angle))
        blue == [i \in BlueIds |->
                    IF i = 0 THEN Robot(robot_x, robot_y, angle + 180, NoWheels)
                    ELSE Robot(ps[i].x, ps[i].y, ts[i], NoWheels)]
        yellow == [i \in YellowIds |->
                    Robot(ps[n_robots_blue + i].x, ps[n_robots_blue + i].y,
                          ts[n_robots_blue + i], NoWheels)]
    IN  [frame |-> Frame(ball, blue, yellow), done_limit |-> robot_x - done_limit_offset]

----------------------------------------------------------------------------
(* The environment: construction, reset() and step(). *)

AddTotals(a, b) == [k \in TotalKeys |-> a[k] + b[k]]

\* what one call added to the mapping it started from
Contribution(total) == [k \in TotalKeys |-> total[k] - InitialTotal[k]]

\* the state __init__ leaves (lines 41-89)
Init ==
    /\ frame = None
    /\ last_frame = None
    /\ commands = None
    /\ done_limit = None
    /\ active_robot_idx = 0
    /\ possession_robot_idx = -1
    /\ last_possession = -1
    /\ dribbler_time = 0
    /\ steps = 0
    /\ reward_shaping_total = ZeroTotal
    /\ reward = 0
    /\ done = FALSE
    /\ op = "init"
    /\ acc = ZeroTotal
    /\ tick = ZeroTotal
    /\ controlled = -1

\* reset() (lines 91-93) with the base environment's reset: a new initial
\* frame, no previous frame, then the first observation.  self.commands and
\* self.reward_shaping_total are not assigned.
ResetTo(ball, angle, ps, ts) ==
    LET ini == get_initial_positions_frame(ball, angle, ps, ts)
        obs == frame_to_observations(ini.frame, commands, possession_robot_idx)
    IN  /\ PlacementOk(ball, ps)
        /\ dribbler_time' = 0
        /\ steps' = 0
        /\ last_frame' = None
        /\ frame' = Some(ini.frame)
        /\ done_limit' = Some(ini.done_limit)
        /\ active_robot_idx' = obs.active_robot_idx
        /\ possession_robot_idx' = obs.possession_robot_idx
        /\ last_possession' = obs.last_possession
        /\ reward' = 0
        /\ done' = FALSE
        /\ op' = "reset"
        /\ acc' = ZeroTotal
        /\ tick' = ZeroTotal
        /\ UNCHANGED << commands, reward_shaping_total, controlled >>

\* step(action) (lines 95-98) with the base environment's step: commands,
\* the simulator's next frame f, the observation, then reward and done
StepTo(actions, u, random_actions, f) ==
    LET cmds == get_commands(active_robot_idx, actions, u, random_actions)
        obs == frame_to_observations(f, cmds, possession_robot_idx)
        rd == calculate_reward_and_done(f, frame, Val(done_limit), obs.active_robot_idx)
    IN  /\ frame # None
        /\ steps < MaxSteps
        /\ steps' = steps + 1
        /\ commands' = cmds
        /\ last_frame' = frame
        /\ frame' = Some(f)
        /\ active_robot_idx' = obs.active_robot_idx
        /\ possession_robot_idx' = obs.possession_robot_idx
        /\ last_possession' = obs.last_possession
        /\ reward_shaping_total' = rd.total
        /\ reward' = rd.reward
        /\ done' = rd.done
        /\ op' = "step"
        /\ acc' = AddTotals(acc, Contribution(rd.total))
        /\ tick' = Contribution(rd.total)
        /\ controlled' = active_robot_idx
        /\ UNCHANGED << done_limit, dribbler_time >>

----------------------------------------------------------------------------
(* Inputs of the environment specification. *)

Pos(x, y) == [x |-> x, y |-> y]

\* the draws of the episode initializer: the ball, the bearing, and for each
\* of the five robots placed after the controlled one its position and theta
BallDraws == { Ball(0, 0), Ball(2500, 300) }
AngleDraws == { 0, 180 }
PosDraws ==
    << { Pos(1000, 1000) }, { Pos(-1000, 1000), Pos(100, 0) }, { Pos(1500, 0) },
       { Pos(1500, -1000) }, { Pos(2000, 1000) } >>
ThetaDraws == { 0 }

FullWheels == << wheel_max_rad_s, -wheel_max_rad_s, wheel_max_rad_s, -wheel_max_rad_s >>

\* the robots the simulator's frames keep where the initializer put them
FarBlue1 == Robot(1000, 1000, 0, NoWheels)
FarBlue2 == Robot(-1000, 1000, 0, NoWheels)
FarYellow0 == Robot(1500, 0, 0, NoWheels)
FarYellow1 == Robot(1500, -1000, 0, NoWheels)
FarYellow2 == Robot(2000, 1000, 0, NoWheels)

\* the robots of a side, indexed by id
Side(r0, r1, r2) == [i \in 0 .. 2 |-> IF i = 0 THEN r0 ELSE IF i = 1 THEN r1 ELSE r2]

SimFrame(ball, b0, b1, y0, y1) ==
    Frame(ball, Side(b0, b1, FarBlue2), Side(y0, y1, FarYellow2))

\* the frames the simulator returns
SimFrames ==
    { \* play goes on: the ball and the controlled robot move a little
      SimFrame(Ball(0, 0), Robot(90, 0, 180, NoWheels), FarBlue1, FarYellow0, FarYellow1),
      SimFrame(Ball(50, 0), Robot(120, 0, 180, FullWheels), FarBlue1, FarYellow0, FarYellow1),
      \* a goal, and the ball out beside the goal
      SimFrame(Ball(3100, 200), Robot(2900, 200, 0, NoWheels), FarBlue1, FarYellow0, FarYellow1),
      SimFrame(Ball(3100, 800), Robot(2900, 200, 0, NoWheels), FarBlue1, FarYellow0, FarYellow1),
      \* the ball behind done_limit, the robot out of the field
      SimFrame(Ball(-1000, 0), Robot(90, 0, 180, NoWheels), FarBlue1, FarYellow0, FarYellow1),
      SimFrame(Ball(0, 0), Robot(0, 2100, 180, NoWheels), FarBlue1, FarYellow0, FarYellow1),
      \* the controlled robot behind done_limit: with a goal, and out of the field
      SimFrame(Ball(3100, 200), Robot(-1000, 0, 0, NoWheels), FarBlue1, FarYellow0, FarYellow1),
      SimFrame(Ball(0, 0), Robot(-1000, 2100, 0, NoWheels), FarBlue1, FarYellow0, FarYellow1),
      \* blue 1 is the nearest blue robot, yellow 0 is nearer still
      SimFrame(Ball(0, 0), Robot(500, 0, 180, NoWheels), Robot(0, 140, 270, NoWheels),
               Robot(-100, 0, 180, NoWheels), Robot(1500, -1000, 146, NoWheels)),
      SimFrame(Ball(0, 0), Robot(500, 0, 180, NoWheels), Robot(0, 140, 270, NoWheels),
               Robot(-100, 0, 0, NoWheels), Robot(1500, -1000, 0, NoWheels)) }

\* the policy's actions and the draws of _get_commands
Actions == { << 0, 0, 0, -1000 >>, << 1000, 0, 0, 1000 >> }
UDraws == { [i \in BlueIds |-> 0] }
YellowSamples == { [i \in YellowIds |-> << 0, 0, 0, 1000 >>] }

Reset ==
    \E ball \in BallDraws, angle \in AngleDraws :
      \E p1 \in PosDraws[1], p2 \in PosDraws[2], p3 \in PosDraws[3],
         p4 \in PosDraws[4], p5 \in PosDraws[5] :
        \E ts \in [1 .. 5 -> ThetaDraws] :
          ResetTo(ball, angle, << p1, p2, p3, p4, p5 >>, ts)

Step ==
    \E actions \in Actions, u \in UDraws, random_actions \in YellowSamples, f \in SimFrames :
      StepTo(actions, u, random_actions, f)

Next == Reset \/ Step

Spec == Init /\ [][Next]_vars

----------------------------------------------------------------------------
(* The first reset() on its own, with a wider choice of draws. *)

PlaceBalls == { Ball(0, 0), Ball(2500, 300), Ball(2500, 1200), Ball(-2800, -1800) }
PlaceAngles == { 0, 90, 180, 270 }
PlacePos ==
    { Pos(200, 0), Pos(100, 0), Pos(300, 100), Pos(2600, 1300), Pos(-2700, -1600),
      Pos(-1000, 500), Pos(1000, 1000), Pos(2000, -1500) }
PlaceThetas == { 90 }

ResetPlace ==
    /\ op = "init"
    /\ \E ball \in PlaceBalls, angle \in PlaceAngles :
         \E ps \in [1 .. 5 -> PlacePos], ts \in [1 .. 5 -> PlaceThetas] :
           ResetTo(ball, angle, ps, ts)

NextPlace == ResetPlace

SpecPlace == Init /\ [][NextPlace]_vars

----------------------------------------------------------------------------
(* One tick of the reward and termination engine on its own: the frame, the *)
(* previous frame (or none) and done_limit are drawn, the observation has   *)
(* been computed, and _calculate_reward_and_done runs once.                 *)

CalcRobotXs == { -3100, -1000, 0, 3100 }
CalcRobotYs == { 0, 2100 }
CalcWheels == { NoWheels, FullWheels }
CalcBallXs == { -3100, -1000, 0, 3100 }
CalcBallYs == { -300, 0, 500, 800, 2000, 2100 }
CalcLimits == { -500, -3390 }

CalcFrames ==
    { SimFrame(Ball(bx, by), Robot(rx, ry, 0, w), FarBlue1, FarYellow0, FarYellow1) :
        bx \in CalcBallXs, by \in CalcBallYs, rx \in CalcRobotXs, ry \in CalcRobotYs,
        w \in CalcWheels }

CalcLastFrames ==
    { SimFrame(Ball(-100, 0), Robot(-200, 0, 0, NoWheels), FarBlue1, FarYellow0, FarYellow1) }

InitCalc ==
    /\ frame \in { Some(f) : f \in CalcFrames }
    /\ last_frame \in { None } \cup { Some(f) : f \in CalcLastFrames }
    /\ commands = None
    /\ done_limit \in { Some(d) : d \in CalcLimits }
    /\ active_robot_idx = get_nearest_robot_idx(Val(frame), "blue").idx
    /\ possession_robot_idx = -1
    /\ last_possession = -1
    /\ dribbler_time = 0
    /\ steps = 0
    /\ reward_shaping_total = ZeroTotal
    /\ reward = 0
    /\ done = FALSE
    /\ op = "obs"
    /\ acc = ZeroTotal
    /\ tick = ZeroTotal
    /\ controlled = -1

CalcTick ==
    LET rd == calculate_reward_and_done(Val(frame), last_frame, Val(done_limit),
                                        active_robot_idx)
    IN  /\ op = "obs"
        /\ reward_shaping_total' = rd.total
        /\ reward' = rd.reward
        /\ done' = rd.done
        /\ op' = "calc"
        /\ acc' = AddTotals(acc, Contribution(rd.total))
        /\ tick' = Contribution(rd.total)
        /\ UNCHANGED << frame, last_frame, commands, done_limit, active_robot_idx,
                        possession_robot_idx, last_possession, dribbler_time, steps,
                        controlled >>

NextCalc == CalcTick

SpecCalc == InitCalc /\ [][NextCalc]_vars

----------------------------------------------------------------------------
(* Claims.  A tick has been evaluated in the states Ticked; the claims read *)
(* the frame the tick was evaluated on and what it returned.                *)

Ticked == op \in { "step", "calc" }

TheBall == Val(frame).ball
TheRobot == Val(frame).robots_blue[0]
Limit == Val(done_limit)

BelowLimit == TheRobot.x < Limit \/ TheBall.x < Limit
RobotOutside == abs(TheRobot.y) > half_wid \/ abs(TheRobot.x) > half_len
InGoalMouth == abs(TheBall.y) < half_goal_wid

\* C1: whenever the controlled robot's x or the ball's x is below done_limit,
\* the tick returns done with reward exactly -10 and done_left_out
\* incremented, whatever else holds.
C1_LeftOutAlwaysMinusTen ==
    (Ticked /\ BelowLimit) =>
        (done /\ reward = -10 * RewardUnit /\ reward_shaping_total.done_left_out >= 1)

C3_OneCausePerTick ==
    Ticked =>
        Cardinality({ k \in { "done_left_out", "done_robot_out", "done_ball_out", "goal" } :
                        reward_shaping_total[k] # 0 }) <= 1

\* C4: the controlled robot outside the field and neither robot nor ball
\* below done_limit: done, done_robot_out 1, goal 0 and reward 0, also with
\* the ball across a length boundary inside the goal mouth.
C4_RobotOutFirst ==
    (Ticked /\ RobotOutside /\ ~ BelowLimit) =>
        /\ done
        /\ reward_shaping_total.done_robot_out = 1
        /\ reward_shaping_total.goal = 0
        /\ reward = 0

C4_Witness_RobotOutWithGoal ==
    /\ op = "calc" /\ RobotOutside /\ ~ BelowLimit
    /\ abs(TheBall.x) > half_len /\ InGoalMouth
    /\ abs(TheRobot.x) > half_len /\ abs(TheRobot.y) <= half_wid
    /\ done /\ reward = 0

BallOutside == abs(TheBall.y) > half_wid \/ abs(TheBall.x) > half_len

\* C9: on a tick without a previous frame and without a terminal condition
\* the shaped branch is not evaluated: reward 0, not done, and the three rw_
\* diagnostics 0.
C9_NoShapingWithoutPreviousFrame ==
    (Ticked /\ last_frame = None /\ ~ BelowLimit /\ ~ RobotOutside /\ ~ BallOutside) =>
        /\ reward = 0
        /\ ~ done
        /\ reward_shaping_total.rw_ball_grad = 0
        /\ reward_shaping_total.rw_robot_grad = 0
        /\ reward_shaping_total.rw_energy = 0

C9_Witness_FirstTickInPlay ==
    /\ op = "calc" /\ last_frame = None
    /\ ~ BelowLimit /\ ~ RobotOutside /\ ~ BallOutside
    /\ energy_pen(Val(frame)) > 0
    /\ reward = 0 /\ ~ done

\* the ball and the six robots of the frame: 0 the ball, 1..3 blue, 4..6 yellow
Entity(k) ==
    IF k = 0 THEN Val(frame).ball
    ELSE IF k <= n_robots_blue THEN Val(frame).robots_blue[k - 1]
    ELSE Val(frame).robots_yellow[k - n_robots_blue - 1]

EntityIds == 0 .. (n_robots_blue + n_robots_yellow)

Apart(a, b) == SqDist(Entity(a).x, Entity(a).y, Entity(b).x, Entity(b).y) >= min_dist * min_dist

Near(team, idx) == BallSqDist(Val(frame), team, idx) <= threshold * threshold

\* C7: possession_robot_idx = i (blue) or 3 + j (yellow) implies that this
\* very robot is within 0.15 of the ball and passes the facing test.
C7_PossessorNearAndFacing ==
    (frame # None) =>
        /\ \A i \in BlueIds :
              possession_robot_idx = i =>
                  Near("blue", i) /\ is_toward_ball(Val(frame), "blue", i)
        /\ \A j \in YellowIds :
              possession_robot_idx = 3 + j =>
                  Near("yellow", j) /\ is_toward_ball(Val(frame), "yellow", j)

\* a terminal rule matches the frame of the tick
TerminalFrame == BelowLimit \/ RobotOutside \/ BallOutside

\* C8 as stated: once a step has returned done, every later step before the
\* next reset returns done.
C8_DoneIsAbsorbing == [][ (done /\ op' = "step") => done' ]_vars

\* C8 as amended: a step returns done exactly when the frame of that very
\* tick matches a terminal rule, whatever the steps before it returned.
C8_DoneFromCurrentFrame == op = "step" => (done <=> TerminalFrame)

C8_Witness_InPlayAfterDone ==
    /\ op = "step" /\ steps >= 2 /\ ~ done
    /\ \/ abs(Val(last_frame).ball.x) > half_len
       \/ Val(last_frame).ball.x < Limit

\* C10: right after every reset possession_robot_idx is -1.
C10_NoPossessionAfterReset == op = "reset" => possession_robot_idx = -1

\* the blue robot whose command carried the policy's action in this tick
ControlledRobot == Val(frame).robots_blue[controlled]

\* the energy term of a robot's wheel speeds
EnergyOf(rbt) ==
    -(((abs(rbt.v_wheel[1]) + abs(rbt.v_wheel[2]) + abs(rbt.v_wheel[3])
          + abs(rbt.v_wheel[4])) * RewardUnit) \div energy_scale)

\* C11: the blue robot that received the policy's action in _get_commands is
\* the robot whose position the termination rules test and whose wheel
\* speeds feed the energy penalty, also when it is not blue 0.
C11_OneControlledRobot ==
    op = "step" =>
        /\ done <=> \/ ControlledRobot.x < Limit \/ TheBall.x < Limit
                    \/ abs(ControlledRobot.y) > half_wid
                    \/ abs(ControlledRobot.x) > half_len
                    \/ BallOutside
        /\ ~ done => reward_shaping_total.rw_energy = EnergyOf(ControlledRobot)

\* the commands of the list that address robot id of a side
Addressed(yellow, id) ==
    { p \in DOMAIN commands : commands[p].yellow = yellow /\ commands[p].id = id }

\* C12: for every active_robot_idx the command set holds exactly one command
\* per side and id, and the blue command at list position i carries id i.
C12_EveryRobotAddressedOnce ==
    commands # None =>
        /\ \A i \in BlueIds : Cardinality(Addressed(FALSE, i)) = 1
        /\ \A j \in YellowIds : Cardinality(Addressed(TRUE, j)) = 1
        /\ \A i \in BlueIds : commands[i + 1].id = i /\ ~ commands[i + 1].yellow

====
